---- MODULE Spec2Model ----
(***************************************************************************)
(* Model of the SEC EDGAR MCP server: the tool company_filings             *)
(* (src/src/server.py) and the pipeline functions it drives                *)
(* (src/src/modules/utils.py), together with the SEC endpoints they call.  *)
(*                                                                         *)
(* Text is modelled as a sequence of one-character strings, so that        *)
(* upper(), strip(), replace(), zero-padding and the splitter are          *)
(* computed rather than assumed.  Python values whose type matters         *)
(* (str, tuple, dict, None) are records tagged with a field "type".        *)
(* A function that may raise is an operator that yields either             *)
(* Return(value) or Raise(exception type).                                 *)
(***************************************************************************)
EXTENDS Integers, Sequences, FiniteSets, TLC

VARIABLES
    recent,          \* upstream: filings.recent of the company's history
    archive,         \* upstream: raw document bytes of filing i (1-based)
    pc,              \* position of the request in company_filings
    company_ticker,  \* tool input
    form,            \* tool input
    cursor,          \* tool input
    user_agent,      \* tool input
    cik,             \* server.py:75  value of company_cik_by_ticker
    context_1,       \* server.py:76
    context_2,       \* server.py:76
    context_3,       \* server.py:76
    mapped_index,    \* server.py:77  form -> index of its latest filing
    sec_base_df,     \* server.py:78  rows of the base data frame
    latest_filings,  \* server.py:79  the fetched raw documents
    result,          \* what the call ended with
    netLog,          \* outbound calls to SEC endpoints made by this call
    sweep,           \* the caller's cursor loop
    fetched,         \* archive downloads of the completed direct calls, call by call
    tasks            \* concurrent direct calls of fetch_all_filings (asyncio tasks)

vars == <<recent, archive, pc, company_ticker, form, cursor, user_agent, cik,
          context_1, context_2, context_3, mapped_index, sec_base_df,
          latest_filings, result, netLog, sweep, fetched, tasks>>

envVars == <<recent, archive>>
inputVars == <<company_ticker, form, cursor, user_agent>>
localVars == <<cik, context_1, context_2, context_3, mapped_index, sec_base_df,
               latest_filings>>
harnessVars == <<fetched, tasks>>

----------------------------------------------------------------------------
(* Bounds of the model *)

MaxHist == 2          \* longest filing history (entries of filings.recent)
MaxCursor == 3        \* largest cursor a caller asks for
MinCursor == 0 - 1    \* smallest cursor a caller asks for
MaxCalls == 2         \* direct calls of fetch_all_filings made one after the other
NumTasks == 2         \* direct calls of fetch_all_filings running concurrently

----------------------------------------------------------------------------
(* Python values and outcomes *)

Return(v) == [tag |-> "return", value |-> v]
Raise(t) == [tag |-> "raise", type |-> t]

None == [type |-> "None"]
EmptyDict == [type |-> "dict", keys |-> {}]
StrVal(s) == [type |-> "str", s |-> s]
Tuple3(a, b, c) == [type |-> "tuple", items |-> <<a, b, c>>]

\* str.upper() on the alphabet of the model
UpperChar(c) ==
    CASE c = "a" -> "A" [] c = "m" -> "M" [] c = "s" -> "S" [] c = "z" -> "Z"
      [] OTHER -> c
Upper(s) == [i \in 1..Len(s) |-> UpperChar(s[i])]

\* str.strip(): drops leading and trailing blanks
RECURSIVE LStrip(_)
LStrip(s) == IF s # <<>> /\ Head(s) = " " THEN LStrip(Tail(s)) ELSE s
RECURSIVE RStrip(_)
RStrip(s) ==
    IF s # <<>> /\ s[Len(s)] = " " THEN RStrip(SubSeq(s, 1, Len(s) - 1)) ELSE s
Strip(s) == RStrip(LStrip(s))

\* str.replace(c, '')
Remove(s, c) == SelectSeq(s, LAMBDA x : x # c)

Contains(s, c) == \E i \in 1..Len(s) : s[i] = c

\* decimal digits of a natural number, as text
DigitChar == <<"0", "1", "2", "3", "4", "5", "6", "7", "8", "9">>
RECURSIVE Digits(_)
Digits(n) == IF n < 10 THEN <<DigitChar[n + 1]>>
             ELSE Digits(n \div 10) \o <<DigitChar[(n % 10) + 1]>>
RECURSIVE Zeros(_)
Zeros(k) == IF k <= 0 THEN <<>> ELSE <<"0">> \o Zeros(k - 1)
\* f"{n:010d}": zero-padded to at least 10 characters
Pad10(n) == Zeros(10 - Len(Digits(n))) \o Digits(n)

\* int(text) for a text of decimal digits
DigitValue(c) == CHOOSE d \in 0..9 : DigitChar[d + 1] = c
IsDigits(s) == s # <<>> /\ \A i \in 1..Len(s) : \E d \in 1..10 : DigitChar[d] = s[i]
RECURSIVE IntOfDigits(_)
IntOfDigits(s) == IF s = <<>> THEN 0
                  ELSE 10 * IntOfDigits(SubSeq(s, 1, Len(s) - 1)) + DigitValue(s[Len(s)])
\* int(v): a str of digits converts, a tuple, dict or None raises TypeError
IntOf(v) ==
    IF v.type = "str"
    THEN IF IsDigits(v.s) THEN Return(IntOfDigits(v.s)) ELSE Raise("ValueError")
    ELSE Raise("TypeError")

----------------------------------------------------------------------------
(* The SEC endpoints *)

\* ticker catalog: rows {cik_str, ticker, title}
Catalog == <<
    [cik_str |-> 789019, ticker |-> <<"M", "S">>, title |-> "MICROSOFT CORP"],
    [cik_str |-> 1750, ticker |-> <<"A", "a">>, title |-> "AAR CORP"] >>

\* how a GET may end: 2xx, a non-2xx status, or a network error / timeout
GetOutcomes == {"ok", "http_error", "request_error"}
\* the filing-history body may also be unparseable, empty, or lack "filings"
HistoryOutcomes == GetOutcomes \cup {"bad_json", "empty_body", "no_filings"}

\* the form types of server.py and utils.py, in the order utils.py scans them
important_forms ==
    <<"10-K", "10-Q", "8-K", "S-1", "S-3", "DEF 14A", "20-F", "6-K", "4", "13D", "13G">>
FormType == {important_forms[i] : i \in 1..Len(important_forms)}

\* form types occurring in the modelled histories ("3" is not a tracked form)
HistForms == {"10-K", "8-K", "3"}

\* the parallel arrays of filings.recent for a given form column
AccessionNumberAt(i) == <<"7", "-", DigitChar[i + 1], "-", "1">>
ReportDateAt(i) == <<"d", DigitChar[i + 1]>>
PrimaryDocumentAt(i) == <<"f", DigitChar[i + 1]>>
RecentOf(forms) ==
    [form |-> forms,
     accessionNumber |-> [i \in 1..Len(forms) |-> AccessionNumberAt(i)],
     reportDate |-> [i \in 1..Len(forms) |-> ReportDateAt(i)],
     primaryDocument |-> [i \in 1..Len(forms) |-> PrimaryDocumentAt(i)]]

RECURSIVE SeqsUpTo(_, _)
SeqsUpTo(S, n) ==
    IF n = 0 THEN {<<>>}
    ELSE LET shorter == SeqsUpTo(S, n - 1)
         IN  shorter \cup {Append(s, x) : s \in shorter, x \in S}
Histories == {RecentOf(f) : f \in SeqsUpTo(HistForms, MaxHist)}

\* top-level company fields of the submissions record ("" is an empty value)
CompanyFields ==
    [name |-> "MICROSOFT CORP", website |-> "",
     category |-> "Large accelerated filer", stateOfIncorporation |-> ""]

\* raw documents: "<" and ">" stand for markup, " " for whitespace
Docs == { <<"<", "a", "b", ">", "c", "d", "e">>,
          <<"a", "b", "c">>,
          <<"<", ">">> }
EmptyBytes == <<>>

\* inputs of the tool
TickerInputs == { <<"M", "S">>, <<" ", "m", "s">>, <<"a", "a">>, <<"Z", "Z">> }
FormInputs == {"10-K", "13G"}
CursorInputs == MinCursor..MaxCursor
UserAgentInputs == { <<>>, <<"A", "p", "p">>, <<"a", "@", "b">> }

----------------------------------------------------------------------------
(* src/src/modules/utils.py *)

\* an outbound call to an SEC endpoint
CatalogCall(ua, outcome) ==
    [endpoint |-> "company_tickers", arg |-> None, user_agent |-> ua, outcome |-> outcome]
SubmissionsCall(c, ua, outcome) ==
    [endpoint |-> "submissions", arg |-> c, user_agent |-> ua, outcome |-> outcome]
ArchiveCall(c, accession, filename, ua, outcome) ==
    [endpoint |-> "archive",
     arg |-> [type |-> "path", cik |-> c, accession |-> accession, filename |-> filename],
     user_agent |-> ua, outcome |-> outcome]

\* utils.py:10-59.  The GET of line 41 is always made; raise_for_status and a
\* transport error propagate; no match returns the error dict; a match returns
\* the tuple (cik, ticker, title).
MatchingRows(tkr) == SelectSeq(Catalog, LAMBDA row : Upper(row.ticker) = tkr)
company_cik_by_ticker(ticker, ua, outcome) ==
    LET tkr == Upper(Strip(ticker))
        match == MatchingRows(tkr)
    IN  CASE outcome = "http_error" -> Raise("HTTPStatusError")
          [] outcome = "request_error" -> Raise("RequestError")
          [] OTHER ->
               IF match = <<>>
               THEN Return([type |-> "dict", error |-> "Ticker not found",
                            ticker |-> ticker, status |-> 404])
               ELSE Return([type |-> "tuple", cik |-> Pad10(match[1].cik_str),
                            ticker |-> match[1].ticker, title |-> match[1].title])

\* utils.py:130-131: a present key with an empty value becomes "N/A"
NotAvailable(v) == IF v = "" THEN "N/A" ELSE v
first_meta_data_dict(d) ==
    [type |-> "dict", name |-> NotAvailable(d.name), website |-> NotAvailable(d.website)]
secondary_meta_data_dict(d) ==
    [type |-> "dict", category |-> NotAvailable(d.category),
     stateOfIncorporation |-> NotAvailable(d.stateOfIncorporation)]

\* utils.py:62-138.  Every exception inside the try returns ({}, {}, {}); a
\* falsy body skips the if of line 118 and the function returns None.
fetch_selected_company_details_and_filing_accessions(c, ua, outcome, upstream) ==
    CASE outcome \in {"http_error", "request_error", "bad_json"} ->
            Return(Tuple3(EmptyDict, EmptyDict, EmptyDict))
      [] outcome = "empty_body" -> Return(None)
      [] outcome = "no_filings" ->
            Return(Tuple3(first_meta_data_dict(CompanyFields),
                          secondary_meta_data_dict(CompanyFields), EmptyDict))
      [] OTHER ->
            Return(Tuple3(first_meta_data_dict(CompanyFields),
                          secondary_meta_data_dict(CompanyFields),
                          [type |-> "filings", recent |-> upstream]))

\* utils.py:141-149.  For each tracked form, in the order of important_forms, the
\* 0-based index of its first occurrence; filings['recent'] of {} is a KeyError.
\* the scan without the break of line 148: the last occurrence wins
FirstIndex_NoBreak(forms, f) ==
    IF \E i \in 1..Len(forms) : forms[i] = f
    THEN (CHOOSE i \in 1..Len(forms) :
              forms[i] = f /\ \A j \in (i + 1)..Len(forms) : forms[j] # f) - 1
    ELSE 0 - 1
FirstIndex(forms, f) ==
    IF \E i \in 1..Len(forms) : forms[i] = f
    THEN (CHOOSE i \in 1..Len(forms) :
              forms[i] = f /\ \A j \in 1..(i - 1) : forms[j] # f) - 1
    ELSE 0 - 1
RECURSIVE MappingFrom(_, _)
MappingFrom(forms, k) ==
    IF k > Len(important_forms) THEN <<>>
    ELSE LET f == important_forms[k]
             i == FirstIndex(forms, f)
         IN  (IF i >= 0 THEN <<[form |-> f, index |-> i]>> ELSE <<>>)
             \o MappingFrom(forms, k + 1)
get_latest_filings_index(filings) ==
    IF filings.type # "filings" THEN Raise("KeyError")
    ELSE Return(MappingFrom(filings.recent.form, 1))

\* utils.py:152-175.  One row per entry of the mapping, read at its index.
create_base_df_for_sec_company_data(mapping_latest_docs, filings, c) ==
    LET idxs == [k \in 1..Len(mapping_latest_docs) |-> mapping_latest_docs[k].index]
    IN  [k \in 1..Len(mapping_latest_docs) |->
            LET index == mapping_latest_docs[k].index IN
            [accession_number |-> Remove(filings.recent.accessionNumber[index + 1], "-"),
             report_date |-> filings.recent.reportDate[index + 1],
             form |-> filings.recent.form[index + 1],
             docs |-> filings.recent.primaryDocument[index + 1],
             cik |-> c,
             index |-> idxs]]

\* utils.py:178-195.  The body on 2xx, b"" on every error.
fetch_selected_company_filings(outcome, body) ==
    IF outcome = "ok" THEN body ELSE EmptyBytes

\* filing archive: the document stored under {cik}/{accession}/{filename}
ArchiveBody(docs, accession, filename) ==
    docs[CHOOSE i \in DOMAIN docs :
            Remove(AccessionNumberAt(i), "-") = accession /\ PrimaryDocumentAt(i) = filename]

\* utils.py:198-206.  Row by row: str(int(row['cik'])) is evaluated before the
\* download of the row, so a cik that int() rejects raises at the first row.
\* outcomes[k] is how the download of row k ends; docs is what the archive holds.
fetch_all_filings(df, ua, outcomes, docs) ==
    IF df = <<>> THEN [tag |-> "return", value |-> <<>>, calls |-> <<>>]
    ELSE IF IntOf(df[1].cik).tag = "raise"
    THEN [tag |-> "raise", type |-> IntOf(df[1].cik).type, calls |-> <<>>]
    ELSE [tag |-> "return",
          value |-> [k \in 1..Len(df) |->
                        fetch_selected_company_filings(
                            outcomes[k], ArchiveBody(docs, df[k].accession_number, df[k].docs))],
          calls |-> [k \in 1..Len(df) |->
                        ArchiveCall(Digits(IntOf(df[k].cik).value), df[k].accession_number,
                                    df[k].docs, ua, outcomes[k])]]

\* utils.py:209-217.  Conversion to markdown drops the markup; an input with
\* no content fails in the converter.
IsMarkup(c) == c \in {"<", ">"}
preprocess_docs_content(raw_content) ==
    LET text == SelectSeq(raw_content, LAMBDA c : ~IsMarkup(c))
    IN  IF text = <<>> THEN Raise("ConversionError") ELSE Return(text)

\* utils.py:220-227.  MarkdownTextSplitter(chunk_size=2, chunk_overlap=0):
\* consecutive pieces of at most chunk_size characters.
chunk_size == 2
RECURSIVE chunk_docs_content(_)
chunk_docs_content(content) ==
    IF content = <<>> THEN <<>>
    ELSE IF Len(content) <= chunk_size THEN <<content>>
    ELSE <<SubSeq(content, 1, chunk_size)>>
         \o chunk_docs_content(SubSeq(content, chunk_size + 1, Len(content)))

----------------------------------------------------------------------------
(* src/src/server.py: the tool company_filings *)

Tasks == 1..NumTasks
NoTasks == [t \in Tasks |-> [pc |-> "idle", row |-> 0, all_filings |-> <<>>]]

Exception(t) == [kind |-> "exception", type |-> t]
NoResult == [kind |-> "none"]
Unset == [type |-> "unset"]

\* list[i] of Python: a negative index counts from the end
PyIndex(list, i) ==
    IF 0 <= i /\ i < Len(list) THEN Return(list[i + 1])
    ELSE IF i < 0 /\ 0 - Len(list) <= i THEN Return(list[Len(list) + i + 1])
    ELSE Raise("IndexError")

\* server.py:80-96: the row of the requested form, its document converted and
\* chunked, and the response with the chunk at the cursor.
RowsOfForm(df, f) == {k \in 1..Len(df) : df[k].form = f}
company_filings_response(c, ctx1, ctx2, df, raws, f, cur) ==
    IF RowsOfForm(df, f) = {} THEN Raise("IndexError")
    ELSE LET k == CHOOSE x \in RowsOfForm(df, f) : \A y \in RowsOfForm(df, f) : x <= y
             filing == df[k]
             doc == preprocess_docs_content(raws[k])
         IN  IF doc.tag = "raise" THEN doc
             ELSE LET chunks == chunk_docs_content(doc.value)
                      chunk == PyIndex(chunks, cur)
                  IN  IF chunk.tag = "raise" THEN chunk
                      ELSE Return([kind |-> "response",
                                   company_cik |-> c,
                                   filing_accession |-> filing.accession_number,
                                   filing_report_date |-> filing.report_date,
                                   filing_form |-> filing.form,
                                   company_context_1 |-> ctx1,
                                   company_context_2 |-> ctx2,
                                   filing_filename |-> filing.docs,
                                   max_cursor |-> Len(chunks) - 1,
                                   filing_chunk |-> [key |-> cur, text |-> chunk.value]])

ClearedLocals ==
    /\ cik' = Unset
    /\ context_1' = Unset
    /\ context_2' = Unset
    /\ context_3' = Unset
    /\ mapped_index' = <<>>
    /\ sec_base_df' = <<>>
    /\ latest_filings' = <<>>

Fail(t) ==
    /\ result' = Exception(t)
    /\ pc' = "done"

\* server.py:75
ResolveTicker ==
    /\ pc = "L75"
    /\ \E outcome \in GetOutcomes :
         LET r == company_cik_by_ticker(company_ticker, user_agent, outcome) IN
         /\ netLog' = Append(netLog, CatalogCall(user_agent, outcome))
         /\ IF r.tag = "raise"
            THEN Fail(r.type) /\ cik' = cik
            ELSE cik' = r.value /\ pc' = "L76" /\ result' = result
    /\ UNCHANGED <<envVars, harnessVars, inputVars, context_1, context_2, context_3,
                   mapped_index, sec_base_df, latest_filings, sweep>>

\* server.py:76: the three values are unpacked from what the function returns
FetchHistory ==
    /\ pc = "L76"
    /\ \E outcome \in HistoryOutcomes :
         LET r == fetch_selected_company_details_and_filing_accessions(
                      cik, user_agent, outcome, recent) IN
         /\ netLog' = Append(netLog, SubmissionsCall(cik, user_agent, outcome))
         /\ IF r.value.type # "tuple"
            THEN Fail("TypeError") /\ UNCHANGED <<context_1, context_2, context_3>>
            ELSE /\ context_1' = r.value.items[1]
                 /\ context_2' = r.value.items[2]
                 /\ context_3' = r.value.items[3]
                 /\ pc' = "L77"
                 /\ result' = result
    /\ UNCHANGED <<envVars, harnessVars, inputVars, cik, mapped_index, sec_base_df,
                   latest_filings, sweep>>

\* server.py:77-78
SelectLatest ==
    /\ pc = "L77"
    /\ LET m == get_latest_filings_index(context_3) IN
         IF m.tag = "raise"
         THEN Fail(m.type) /\ UNCHANGED <<mapped_index, sec_base_df>>
         ELSE /\ mapped_index' = m.value
              /\ sec_base_df' = create_base_df_for_sec_company_data(
                                    m.value, context_3, cik)
              /\ pc' = "L79"
              /\ result' = result
    /\ UNCHANGED <<envVars, harnessVars, inputVars, cik, context_1, context_2, context_3,
                   latest_filings, netLog, sweep>>

\* server.py:79
FetchAllFilings ==
    /\ pc = "L79"
    /\ \E outcomes \in [1..Len(sec_base_df) -> GetOutcomes] :
         LET r == fetch_all_filings(sec_base_df, user_agent, outcomes, archive) IN
         /\ netLog' = netLog \o r.calls
         /\ IF r.tag = "raise"
            THEN Fail(r.type) /\ latest_filings' = latest_filings
            ELSE latest_filings' = r.value /\ pc' = "L80" /\ result' = result
    /\ UNCHANGED <<envVars, harnessVars, inputVars, cik, context_1, context_2, context_3,
                   mapped_index, sec_base_df, sweep>>

\* server.py:80-96
Respond ==
    /\ pc = "L80"
    /\ LET r == company_filings_response(cik, context_1, context_2, sec_base_df,
                                         latest_filings, form, cursor) IN
         result' = IF r.tag = "raise" THEN Exception(r.type) ELSE r.value
    /\ pc' = "done"
    /\ UNCHANGED <<envVars, harnessVars, inputVars, localVars, netLog, sweep>>

----------------------------------------------------------------------------
(* The caller of the tool (src/src/client.py) *)

AllOk(log) == \A i \in 1..Len(log) : log[i].outcome = "ok"

NoSweep == [mode |-> "single", state |-> "idle", received |-> <<>>, upstream_ok |-> TRUE]

Invoke(t, f, c, ua) ==
    /\ company_ticker' = t
    /\ form' = f
    /\ cursor' = c
    /\ user_agent' = ua
    /\ pc' = "L75"
    /\ result' = NoResult
    /\ netLog' = <<>>
    /\ ClearedLocals

\* one call of the tool with any arguments
CallTool ==
    /\ pc = "idle"
    /\ \E t \in TickerInputs, f \in FormInputs, c \in CursorInputs, ua \in UserAgentInputs :
         Invoke(t, f, c, ua)
    /\ sweep' = NoSweep
    /\ UNCHANGED <<envVars, harnessVars>>

\* client.py:140-143: a caller that starts with cursor = 0 ...
StartSweep ==
    /\ pc = "idle"
    /\ \E t \in TickerInputs, f \in FormInputs, ua \in UserAgentInputs :
         Invoke(t, f, 0, ua)
    /\ sweep' = [mode |-> "sweep", state |-> "running", received |-> <<>>,
                 upstream_ok |-> TRUE]
    /\ UNCHANGED <<envVars, harnessVars>>

\* ... and increments the cursor until max_cursor is reached; a call that
\* yields no response ends the loop
SweepStep ==
    /\ pc = "done"
    /\ sweep.state = "running"
    /\ LET ok == sweep.upstream_ok /\ AllOk(netLog) IN
       IF result.kind = "response"
       THEN LET got == Append(sweep.received, result.filing_chunk.text) IN
            IF cursor + 1 > result.max_cursor
            THEN /\ sweep' = [sweep EXCEPT !.state = "complete", !.received = got,
                                           !.upstream_ok = ok]
                 /\ UNCHANGED <<inputVars, localVars, pc, result, netLog>>
            ELSE /\ sweep' = [sweep EXCEPT !.received = got, !.upstream_ok = ok]
                 /\ Invoke(company_ticker, form, cursor + 1, user_agent)
       ELSE /\ sweep' = [sweep EXCEPT !.state = "aborted", !.upstream_ok = ok]
            /\ UNCHANGED <<inputVars, localVars, pc, result, netLog>>
    /\ UNCHANGED <<envVars, harnessVars>>

\* the caller has its answer; the server keeps nothing of the call
ReturnToCaller ==
    /\ pc = "done"
    /\ sweep.state # "running"
    /\ pc' = "idle"
    /\ company_ticker' = <<>>
    /\ form' = "10-K"
    /\ cursor' = 0
    /\ user_agent' = <<>>
    /\ result' = NoResult
    /\ netLog' = <<>>
    /\ ClearedLocals
    /\ sweep' = NoSweep
    /\ UNCHANGED <<envVars, harnessVars>>

----------------------------------------------------------------------------
(* The server under its callers *)

Init ==
    /\ recent \in Histories
    /\ archive \in [1..Len(recent.form) -> Docs]
    /\ pc = "idle"
    /\ company_ticker = <<>>
    /\ form = "10-K"
    /\ cursor = 0
    /\ user_agent = <<>>
    /\ cik = Unset
    /\ context_1 = Unset
    /\ context_2 = Unset
    /\ context_3 = Unset
    /\ mapped_index = <<>>
    /\ sec_base_df = <<>>
    /\ latest_filings = <<>>
    /\ result = NoResult
    /\ netLog = <<>>
    /\ sweep = NoSweep
    /\ fetched = <<>>
    /\ tasks = NoTasks

Next ==
    \/ CallTool
    \/ StartSweep
    \/ SweepStep
    \/ ReturnToCaller
    \/ ResolveTicker
    \/ FetchHistory
    \/ SelectLatest
    \/ FetchAllFilings
    \/ Respond

Spec == Init /\ [][Next]_vars

----------------------------------------------------------------------------
(* The pipeline functions called directly, with arguments of the types their *)
(* signatures declare (cik: str).  server.py never gets this far with a str  *)
(* cik, so fetch_all_filings is exercised through this harness.              *)

CikStrings == {StrVal(Pad10(Catalog[i].cik_str)) : i \in 1..Len(Catalog)}

UtilsInit ==
    /\ recent \in Histories
    /\ archive \in [1..Len(recent.form) -> Docs]
    /\ pc = "u_idle"
    /\ company_ticker = <<>>
    /\ form = "10-K"
    /\ cursor = 0
    /\ user_agent = <<>>
    /\ cik = Unset
    /\ context_1 = Unset
    /\ context_2 = Unset
    /\ context_3 = Unset
    /\ mapped_index = <<>>
    /\ sec_base_df = <<>>
    /\ latest_filings = <<>>
    /\ result = NoResult
    /\ netLog = <<>>
    /\ sweep = NoSweep
    /\ fetched = <<>>
    /\ tasks = NoTasks

\* utils.py:141-175 on the history, with a CIK string
BuildBaseDf ==
    /\ pc = "u_idle"
    /\ Len(fetched) < MaxCalls
    /\ \E c \in CikStrings, ua \in UserAgentInputs :
         LET filings == [type |-> "filings", recent |-> recent] IN
         /\ cik' = c
         /\ user_agent' = ua
         /\ context_3' = filings
         /\ mapped_index' = get_latest_filings_index(filings).value
         /\ sec_base_df' = create_base_df_for_sec_company_data(
                               get_latest_filings_index(filings).value, filings, c)
    /\ pc' = "u_fetch"
    /\ UNCHANGED <<envVars, harnessVars, company_ticker, form, cursor, context_1, context_2,
                   latest_filings, result, netLog, sweep>>

\* utils.py:198-206: what the function hands back is its result
CallFetchAllFilings ==
    /\ pc = "u_fetch"
    /\ \E outcomes \in [1..Len(sec_base_df) -> GetOutcomes] :
         LET r == fetch_all_filings(sec_base_df, user_agent, outcomes, archive) IN
         /\ netLog' = r.calls
         /\ latest_filings' = IF r.tag = "raise" THEN <<>> ELSE r.value
         /\ result' = IF r.tag = "raise" THEN Exception(r.type)
                      ELSE [kind |-> "series", value |-> r.value]
         /\ fetched' = Append(fetched, r.calls)
    /\ pc' = "u_done"
    /\ UNCHANGED <<envVars, tasks, inputVars, cik, context_1, context_2, context_3,
                   mapped_index, sec_base_df, sweep>>

UtilsReturn ==
    /\ pc = "u_done"
    /\ pc' = "u_idle"
    /\ user_agent' = <<>>
    /\ result' = NoResult
    /\ netLog' = <<>>
    /\ ClearedLocals
    /\ UNCHANGED <<envVars, harnessVars, company_ticker, form, cursor, sweep>>

UtilsNext ==
    \/ BuildBaseDf
    \/ CallFetchAllFilings
    \/ UtilsReturn

UtilsSpec == UtilsInit /\ [][UtilsNext]_vars

----------------------------------------------------------------------------
(* What a request is entitled to, read off the upstream data *)

Done == pc = "done"

\* user-agent policy: a contact-bearing string, i.e. one containing '@'
ValidUserAgent(ua) == ua # <<>> /\ Contains(ua, "@")

TickerKnown(t) == MatchingRows(Upper(Strip(t))) # <<>>
ExpectedCik(t) == Pad10(MatchingRows(Upper(Strip(t)))[1].cik_str)

FormInHistory(f) == \E i \in 1..Len(recent.form) : recent.form[i] = f
SelectedPosition(f) == FirstIndex(recent.form, f) + 1

\* the filing of form f has a ChunkSet when its document converts
HasChunkSet(f) ==
    /\ FormInHistory(f)
    /\ preprocess_docs_content(archive[SelectedPosition(f)]).tag = "return"
ChunkSet(f) ==
    chunk_docs_content(preprocess_docs_content(archive[SelectedPosition(f)]).value)

ErrorValue(r, status) == r.kind = "error" /\ r.status = status

\* a request that every upstream endpoint answered, for a known company
Healthy ==
    /\ ValidUserAgent(user_agent)
    /\ TickerKnown(company_ticker)
    /\ AllOk(netLog)

CallsTo(endpoint) == {i \in 1..Len(netLog) : netLog[i].endpoint = endpoint}

----------------------------------------------------------------------------
(* Claims *)

\* C1: for a filing whose ChunkSet has max_cursor = M, a request with cursor in
\* 0..M succeeds and returns a chunk, and a request with cursor = M + 1 or with
\* a negative cursor ends with a 400 validation error.
C1_CursorValidity ==
    (Done /\ Healthy /\ HasChunkSet(form)) =>
        LET M == Len(ChunkSet(form)) - 1 IN
        /\ cursor \in 0..M => result.kind = "response"
        /\ (cursor = M + 1 \/ cursor < 0) => ErrorValue(result, 400)

\* C2: a request with cursor c in range, on a filing whose ChunkSet has n
\* chunks, is answered with max_cursor = n - 1 and exactly one chunk field,
\* filing_chunk_<c>, holding the c-th chunk of the ChunkSet.
C2_ResponseChunk ==
    (Done /\ Healthy /\ HasChunkSet(form) /\ cursor \in 0..(Len(ChunkSet(form)) - 1)) =>
        /\ result.kind = "response"
        /\ result.max_cursor = Len(ChunkSet(form)) - 1
        /\ result.filing_chunk = [key |-> cursor, text |-> ChunkSet(form)[cursor + 1]]

\* C3: a cursor sweep over a filing whose upstream data does not change ends
\* after max_cursor + 1 successful responses, having received exactly the
\* ChunkSet in order.
C3_CursorSweep ==
    (/\ sweep.mode = "sweep"
     /\ sweep.state \in {"complete", "aborted"}
     /\ sweep.upstream_ok
     /\ ValidUserAgent(user_agent)
     /\ TickerKnown(company_ticker)
     /\ HasChunkSet(form)) =>
        /\ sweep.state = "complete"
        /\ sweep.received = ChunkSet(form)

\* C4: a call whose user_agent is empty or contains no '@' ends with a 400
\* validation error, and no outbound call has been made when it does.
C4_UserAgentGuard ==
    (Done /\ ~ValidUserAgent(user_agent)) =>
        ErrorValue(result, 400) /\ netLog = <<>>

\* C5: when the ticker matches no row of the catalog, the tool returns the 404
\* payload {error: "Ticker not found", ticker: <input>, status: 404} and makes
\* no filing-history or filing-archive request.
C5_TickerNotFound ==
    (Done /\ ValidUserAgent(user_agent) /\ AllOk(netLog)
          /\ ~TickerKnown(company_ticker)) =>
        /\ ErrorValue(result, 404)
        /\ result.error = "Ticker not found"
        /\ result.ticker = company_ticker
        /\ CallsTo("submissions") = {}
        /\ CallsTo("archive") = {}

\* C6: when the requested form does not occur in the (available) filing
\* history, the tool returns a 404 "no filing found for form" error.
C6_FormNotFound ==
    (Done /\ Healthy /\ CallsTo("submissions") # {} /\ ~FormInHistory(form)) =>
        ErrorValue(result, 404)

\* C7: after a successful ticker resolution, the company identifier passed to
\* the filing-history fetch, and the response field company_cik, is the
\* 10-digit zero-padded CIK string.
C7_IdentifierFlow ==
    (ValidUserAgent(user_agent) /\ TickerKnown(company_ticker)) =>
        /\ \A i \in CallsTo("submissions") :
              /\ netLog[i].arg.type = "str"
              /\ netLog[i].arg.s = ExpectedCik(company_ticker)
        /\ (Done /\ result.kind = "response") =>
              /\ result.company_cik.type = "str"
              /\ result.company_cik.s = ExpectedCik(company_ticker)

\* C8: every call (here: with a valid user-agent), whatever its upstream calls
\* did, ends by returning a PaginationResponse or an error value with a message
\* and a status code, never in an unhandled exception.
C8_ErrorsAsData ==
    (Done /\ ValidUserAgent(user_agent)) => result.kind \in {"response", "error"}

\* C9: when the download of the selected filing's document ends in an HTTP
\* error or a request error, the fetch fails with an UpstreamUnavailable
\* (502/504) error; no empty document is handed on to be normalized.
C9_UpstreamDocumentFailure ==
    (/\ pc \in {"u_done", "done"}
     /\ ValidUserAgent(user_agent)
     /\ \E i \in CallsTo("archive") : netLog[i].outcome # "ok") =>
        /\ result.kind = "error"
        /\ result.status \in {502, 504}

\* C10: a request that is invalid (bad user-agent, cursor outside
\* [0, max_cursor]) causes no outbound call to any SEC endpoint.
C10_ValidationBeforeNetwork ==
    (Done /\ (\/ ~ValidUserAgent(user_agent)
              \/ cursor < 0
              \/ (HasChunkSet(form) /\ cursor > Len(ChunkSet(form)) - 1))) =>
        netLog = <<>>

\* C14: for every filing history and every tracked form type f,
\* get_latest_filings_index maps f to the smallest index i with
\* recent.form[i] = f, and f is absent from the result exactly when f never
\* occurs in recent.form.
EntriesOf(f) == {k \in 1..Len(mapped_index) : mapped_index[k].form = f}
C14_LatestFormSelection ==
    pc \in {"L79", "u_fetch"} =>
        \A f \in FormType :
            LET forms == context_3.recent.form IN
            IF \E i \in 1..Len(forms) : forms[i] = f
            THEN /\ Cardinality(EntriesOf(f)) = 1
                 /\ \A k \in EntriesOf(f) :
                       /\ mapped_index[k].index \in 0..(Len(forms) - 1)
                       /\ forms[mapped_index[k].index + 1] = f
                       /\ \A j \in 1..mapped_index[k].index : forms[j] # f
            ELSE EntriesOf(f) = {}

\* the requested form occurs twice, other tracked forms do not occur
C14_Witness ==
    /\ pc = "L79"
    /\ context_3.recent.form = <<"10-K", "10-K">>
    /\ mapped_index = <<[form |-> "10-K", index |-> 0]>>

\* C11: of two requests made one after the other for the same filing (same cik
\* and accession), only the first downloads and converts the document; the
\* second is served from the FilingCache, so a document that was downloaded
\* successfully is not downloaded again by a later call.
C11_CacheReuse ==
    \A a \in 1..Len(fetched), b \in 1..Len(fetched) :
        a < b =>
            \A i \in 1..Len(fetched[a]), j \in 1..Len(fetched[b]) :
                ~(/\ fetched[a][i].arg = fetched[b][j].arg
                  /\ fetched[a][i].outcome = "ok"
                  /\ ValidUserAgent(fetched[a][i].user_agent)
                  /\ ValidUserAgent(fetched[b][j].user_agent))

\* C13: only the filing of the requested form is selected and downloaded, so
\* one request (one run of the fetch step) makes at most one filing-archive
\* download, whatever other tracked forms the history holds.
C13_OnlyRequestedForm ==
    (pc \in {"u_done", "done"} /\ ValidUserAgent(user_agent)) =>
        Cardinality(CallsTo("archive")) <= 1

\* C15: on a network or parse failure, and on an empty response body, the
\* filing-history fetch hands back three empty structures, and company_filings
\* ends such a request with an error result, not with a success response or an
\* exception.
HistoryFailures == {"http_error", "request_error", "bad_json", "empty_body"}
C15_HistoryFailure ==
    (/\ ValidUserAgent(user_agent)
     /\ TickerKnown(company_ticker)
     /\ \E i \in CallsTo("submissions") : netLog[i].outcome \in HistoryFailures) =>
        /\ context_1 = EmptyDict
        /\ context_2 = EmptyDict
        /\ context_3 = EmptyDict
        /\ Done => result.kind = "error"

----------------------------------------------------------------------------
(* Concurrent calls of fetch_all_filings for the same filings: asyncio tasks *)
(* on one event loop.  A task runs without interruption from one await to    *)
(* the next; the only await is the GET of utils.py:184.                      *)

ConcInit ==
    /\ recent \in Histories
    /\ archive \in [1..Len(recent.form) -> Docs]
    /\ pc = "c_idle"
    /\ company_ticker = <<>>
    /\ form = "10-K"
    /\ cursor = 0
    /\ user_agent = <<>>
    /\ cik = Unset
    /\ context_1 = Unset
    /\ context_2 = Unset
    /\ context_3 = Unset
    /\ mapped_index = <<>>
    /\ sec_base_df = <<>>
    /\ latest_filings = <<>>
    /\ result = NoResult
    /\ netLog = <<>>
    /\ sweep = NoSweep
    /\ fetched = <<>>
    /\ tasks = NoTasks

\* utils.py:141-175: the base frame all the tasks are given
ShareBaseDf ==
    /\ pc = "c_idle"
    /\ \E c \in CikStrings, ua \in UserAgentInputs :
         LET filings == [type |-> "filings", recent |-> recent] IN
         /\ cik' = c
         /\ user_agent' = ua
         /\ context_3' = filings
         /\ mapped_index' = get_latest_filings_index(filings).value
         /\ sec_base_df' = create_base_df_for_sec_company_data(
                               get_latest_filings_index(filings).value, filings, c)
    /\ pc' = "c_run"
    /\ UNCHANGED <<envVars, harnessVars, company_ticker, form, cursor, context_1,
                   context_2, latest_filings, result, netLog, sweep>>

\* utils.py:199-201, 180-184: the call runs up to the GET of the first row, or
\* returns at once for an empty frame
TaskStart(t) ==
    /\ pc = "c_run"
    /\ tasks[t].pc = "idle"
    /\ tasks' = [tasks EXCEPT ![t] =
                    IF sec_base_df = <<>>
                    THEN [pc |-> "done", row |-> 0, all_filings |-> <<>>]
                    ELSE [pc |-> "await", row |-> 1, all_filings |-> <<>>]]
    /\ UNCHANGED <<envVars, fetched, pc, inputVars, localVars, result, netLog, sweep>>

\* utils.py:184-195, 202: the GET of the row completes, its body (or b"") is
\* appended, and the loop goes on to the GET of the next row or returns
TaskReceive(t) ==
    /\ pc = "c_run"
    /\ tasks[t].pc = "await"
    /\ \E outcome \in GetOutcomes :
         LET k == tasks[t].row
             row == sec_base_df[k]
             body == fetch_selected_company_filings(
                         outcome, ArchiveBody(archive, row.accession_number, row.docs))
             got == Append(tasks[t].all_filings, body)
         IN  /\ netLog' = Append(netLog,
                                 ArchiveCall(Digits(IntOf(row.cik).value),
                                             row.accession_number, row.docs,
                                             user_agent, outcome))
             /\ tasks' = [tasks EXCEPT ![t] =
                             IF k < Len(sec_base_df)
                             THEN [pc |-> "await", row |-> k + 1, all_filings |-> got]
                             ELSE [pc |-> "done", row |-> k, all_filings |-> got]]
    /\ UNCHANGED <<envVars, fetched, pc, inputVars, localVars, result, sweep>>

ConcNext ==
    \/ ShareBaseDf
    \/ \E t \in Tasks : TaskStart(t)
    \/ \E t \in Tasks : TaskReceive(t)

ConcSpec == ConcInit /\ [][ConcNext]_vars

\* the downloads in flight: the tasks suspended at the GET of a row
InFlight(row) == {t \in Tasks : tasks[t].pc = "await" /\ tasks[t].row = row}

\* C12: concurrent requests for the same uncached filing collapse into a single
\* computation: at no time is more than one download of the same filing in
\* flight.
C12_SingleFlight ==
    ValidUserAgent(user_agent) =>
        \A k \in 1..Len(sec_base_df) : Cardinality(InFlight(k)) <= 1

----------------------------------------------------------------------------
(* Properties of the pipeline functions that C16 rests on.  They are about  *)
(* the base frame and the fetched series, not about a response.             *)

\* utils.py:152-175: every row of the base frame is read at one position of the
\* parallel arrays, the first occurrence of the row's form
BaseDfRowsCoherent ==
    pc \in {"L79", "u_fetch", "u_done", "c_run"} =>
        \A k \in 1..Len(sec_base_df) :
            LET r == context_3.recent
                p == FirstIndex(r.form, sec_base_df[k].form) + 1
            IN  /\ p \in 1..Len(r.form)
                /\ sec_base_df[k].accession_number = Remove(r.accessionNumber[p], "-")
                /\ sec_base_df[k].report_date = r.reportDate[p]
                /\ sec_base_df[k].docs = r.primaryDocument[p]

\* utils.py:198-206: the series has one entry per row, in row order: the
\* document of that row's filing, or b"" where its download failed
FetchedSeriesAligned ==
    pc = "u_done" =>
        /\ Len(latest_filings) = Len(sec_base_df)
        /\ \A k \in 1..Len(sec_base_df) :
              LET p == FirstIndex(recent.form, sec_base_df[k].form) + 1 IN
              latest_filings[k] =
                  IF netLog[k].outcome = "ok" THEN archive[p] ELSE EmptyBytes

\* server.py under its callers: no call of company_filings returns a response
NoResponseReachable == Done => result.kind = "exception"

====
